---- MODULE Spec2Model ----
(***************************************************************************)
(* A model of common/functions.py of vanDANA: the history rotation         *)
(* (update_variables), the step-size control (round_decimals_down,         *)
(* calc_runtime_stats_timestep), the distributed stability estimate        *)
(* (DENO), the periodic boundary evaluators (Inflow, Outflow) and the      *)
(* pressure null space (attach_nullspace).                                 *)
(***************************************************************************)
EXTENDS Integers, Sequences, FiniteSets, TLC

(***************************************************************************)
(* Bounds of the model.                                                    *)
(***************************************************************************)
\* Width of a float's significand.  Python floats carry 53 bits; the model
\* keeps the same round-to-nearest-even arithmetic on a narrower significand.
MantBits == 12
\* Field values a history slot can hold: 0 .. MaxVal.
MaxVal == 1
\* Consecutive update_variables calls followed without a new slot-0 value.
MaxCalls == 2
\* Simulation times 0, 1/2, ..., MaxT2/2 and cycle counts 0 .. MaxCycle.
MaxT2 == 4
MaxCycle == 2
\* Degrees of freedom 1 .. NDof of the reference vector, entries -MaxX .. MaxX.
NDof == 3
MaxX == 1
\* Mesh vertices 1 .. NVert held by processes 0 .. NProc-1; speeds up to
\* MaxU along a direction and length scales 1 .. MaxH.
NVert == 2
NProc == 2
MaxU == 1
MaxH == 2
\* Time steps followed.
MaxSteps == 2
\* u_.geometric_dimension(): the velocity has three components (lines 36-38).
Dim == 3

(***************************************************************************)
(* Python float arithmetic: a non-negative float is m * 2^e with            *)
(* 2^(MantBits-1) <= m < 2^MantBits, or zero.  Every operation returns the  *)
(* float nearest the exact result, ties to the even significand.            *)
(***************************************************************************)
Pow2(k) == IF k <= 0 THEN 1 ELSE 2 ^ k

RECURSIVE BitLen(_)
BitLen(n) ==
  IF n = 0 THEN 0
  ELSE IF n >= 65536 THEN 16 + BitLen(n \div 65536)
  ELSE IF n >= 256 THEN 8 + BitLen(n \div 256)
  ELSE IF n >= 16 THEN 4 + BitLen(n \div 16)
  ELSE 1 + BitLen(n \div 2)

FZero == [m |-> 0, e |-> 0]

\* The float nearest n * 2^e, for an integer n >= 0.
Norm(n, e) ==
  IF n = 0 THEN FZero
  ELSE LET bl == BitLen(n) IN
       IF bl <= MantBits
       THEN [m |-> n * Pow2(MantBits - bl), e |-> e - (MantBits - bl)]
       ELSE LET s    == bl - MantBits
                q    == n \div Pow2(s)
                r    == n % Pow2(s)
                half == Pow2(s - 1)
                up   == (r > half) \/ (r = half /\ q % 2 = 1)
                m1   == IF up THEN q + 1 ELSE q
            IN IF m1 = Pow2(MantBits)
               THEN [m |-> Pow2(MantBits - 1), e |-> e + s + 1]
               ELSE [m |-> m1, e |-> e + s]

FromInt(n) == Norm(n, 0)

FMul(a, b) == IF a.m = 0 \/ b.m = 0 THEN FZero ELSE Norm(a.m * b.m, a.e + b.e)

\* a / b for b # 0: MantBits+2 quotient bits and a sticky bit, then rounded.
FDiv(a, b) ==
  IF a.m = 0 THEN FZero
  ELSE LET n == a.m * Pow2(MantBits + 1)
           q == n \div b.m
           r == n % b.m
       IN Norm(2 * q + (IF r > 0 THEN 1 ELSE 0), a.e - b.e - (MantBits + 1) - 1)

FAdd(a, b) ==
  IF a.m = 0 THEN b
  ELSE IF b.m = 0 THEN a
  ELSE LET hi == IF a.e >= b.e THEN a ELSE b
           lo == IF a.e >= b.e THEN b ELSE a
           d  == hi.e - lo.e
       IN IF d > MantBits + 1 THEN hi
          ELSE Norm(hi.m * Pow2(d) + lo.m, lo.e)

FLt(a, b) ==
  IF b.m = 0 THEN FALSE
  ELSE IF a.m = 0 THEN TRUE
  ELSE a.e < b.e \/ (a.e = b.e /\ a.m < b.m)

FLe(a, b) == a = b \/ FLt(a, b)

FMax(a, b) == IF FLt(a, b) THEN b ELSE a

\* math.floor of a non-negative float.
Floor(a) ==
  IF a.e >= 0 THEN a.m * Pow2(a.e)
  ELSE IF -a.e > MantBits THEN 0
  ELSE a.m \div Pow2(-a.e)

RECURSIVE ISqrtFrom(_, _, _)
ISqrtFrom(n, r, bit) ==
  IF bit = 0 THEN r
  ELSE IF (r + bit) * (r + bit) <= n
       THEN ISqrtFrom(n, r + bit, bit \div 2)
       ELSE ISqrtFrom(n, r, bit \div 2)

\* np.sqrt of a non-negative float, correctly rounded.
FSqrt(a) ==
  IF a.m = 0 THEN FZero
  ELSE LET k0 == MantBits + 3
           k  == IF (a.e - k0) % 2 = 0 THEN k0 ELSE k0 + 1
           n  == a.m * Pow2(k)
           r  == ISqrtFrom(n, 0, Pow2(MantBits + 1))
       IN Norm(2 * r + (IF r * r = n THEN 0 ELSE 1), ((a.e - k) \div 2) - 1)

Abs(i) == IF i < 0 THEN -i ELSE i

(***************************************************************************)
(* State.                                                                  *)
(***************************************************************************)
VARIABLES
  number, decimals, rounded,   \* one call of round_decimals_down and its result
  ts_call, ts_ret,             \* one step-size update (lines 250-253) and its result
  u_, p_, T_,                  \* the history buffers, slot 0 the current generation
  snap,                        \* history: the buffers before each update_variables
                               \* call made since slot 0 was last written
  param,                       \* the boundary evaluators' parameters and clock
  values,                      \* the output array of the last evaluation
  evals,                       \* history: the last two evaluations, newest first
  x_, Q,                       \* the reference vector and the dofs of the pressure space
  Ap,                          \* the pressure operator: its attached null-space basis
  u, h_f_X,                    \* the velocity and the length scale at each mesh vertex
  part,                        \* the vertices each process holds
  DENO_ret, serial_ret,        \* what DENO returned on the processes of part, and
                               \* what it returned in a run on a single process
  t, tsp, Re, time_control,    \* arguments of calc_runtime_stats_timestep: the step
                               \* number, the step size, the Reynolds number, the
                               \* time control settings
  pc,                          \* where each process is in calc_runtime_stats_timestep
  coll,                        \* the collectives each process has entered in this step
  loc,                         \* each process's local variables DN, NM, C_no_real, local_Re
  ret,                         \* what the call returned on each process
  text_file                    \* the lines written to text_file_handles[1]

roundVars == <<number, decimals, rounded, ts_call, ts_ret>>
rotVars == <<u_, p_, T_, snap>>
waveVars == <<param, values, evals>>
nullVars == <<x_, Q, Ap>>
meshVars == <<u, h_f_X, part>>
denoVars == <<DENO_ret, serial_ret>>
stepVars == <<t, tsp, Re, time_control, pc, coll, loc, ret, text_file>>
vars == <<roundVars, rotVars, waveVars, nullVars, meshVars, denoVars, stepVars>>

NoResult == [kind |-> "none"]

(***************************************************************************)
(* round_decimals_down (lines 227-237).  decimals is [int, n]: the integer  *)
(* n, or with int = FALSE a non-integer such as the float n + 0.5.          *)
(***************************************************************************)
RECURSIVE Pow10(_)
Pow10(k) == IF k <= 0 THEN 1 ELSE 10 * Pow10(k - 1)

round_decimals_down(num, dec) ==
  IF ~dec.int THEN [kind |-> "TypeError"]
  ELSE IF dec.n < 0 THEN [kind |-> "ValueError"]
  ELSE IF dec.n = 0 THEN [kind |-> "int", v |-> Floor(num)]
  ELSE LET factor == Pow10(dec.n)
       IN [kind |-> "float",
           v |-> FDiv(FromInt(Floor(FMul(num, FromInt(factor)))), FromInt(factor))]

\* Lines 250-253 of calc_runtime_stats_timestep: the step size returned for
\* the reduced Courant denominator DN.  With DN = 0 the division raises
\* ZeroDivisionError for a Python float and gives inf for a numpy float,
\* whose math.floor raises OverflowError: an ArithmeticError either way.
timestep_update_Always(step, control, DN) ==
  IF DN.m = 0 THEN [kind |-> "ArithmeticError"]
  ELSE round_decimals_down(FDiv(control.C_no, DN), [int |-> TRUE, n |-> 5])
timestep_update(step, control, DN) ==
  IF control.variable_timestep = TRUE
  THEN IF DN.m = 0 THEN [kind |-> "ArithmeticError"]
       ELSE round_decimals_down(FDiv(control.C_no, DN), [int |-> TRUE, n |-> 5])
  ELSE [kind |-> "float", v |-> step]

(***************************************************************************)
(* update_variables (lines 256-265).  A buffer is a function from its slot  *)
(* indices (0 the current generation) to field values; assign copies the    *)
(* values of one slot into another.                                         *)
(***************************************************************************)
Vals == 0 .. MaxVal
USlots == 0 .. 2
TSlots == 0 .. 3

assign(buf, dst, src) == [buf EXCEPT ![dst] = buf[src]]

\* Lines 258-259 (velocity) and 260-261 (pressure): slot 2, then slot 1.
Rotate3_SkipOldest(buf) == assign(buf, 1, 0)
Rotate3(buf) == assign(assign(buf, 2, 1), 1, 0)

\* Lines 263-265 (temperature): slot 3, then slot 2, then slot 1.
Rotate4_Increasing(buf) == assign(assign(assign(buf, 1, 0), 2, 1), 3, 2)
Rotate4(buf) == assign(assign(assign(buf, 3, 2), 2, 1), 1, 0)

(***************************************************************************)
(* Inflow.eval_cell (lines 17-38) and Outflow.eval_cell (lines 98-117).     *)
(* Times and the time scale are binary fractions, for which the float       *)
(* products and the difference of line 35 are exact: t = t2/2, Tsc = Tsc2/2 *)
(* and the spline argument t*Tsc - nm*period*Tsc = arg4/4.                  *)
(***************************************************************************)
SplineArg_UnscaledOffset(t2, nm, period, Tsc2) == t2 * Tsc2 - 4 * nm * period
SplineArg(t2, nm, period, Tsc2) == t2 * Tsc2 - 2 * nm * period * Tsc2

\* splev(x, func) for a waveform that repeats every period*Tsc: func maps a
\* phase, in quarters, to the sample there.
Phase(arg4, period, Tsc2) == arg4 % (2 * period * Tsc2)
splev(arg4, par) ==
  LET w  == 2 * par.period * par.Tsc2
      ph == Phase(arg4, par.period, par.Tsc2)
  IN IF par.func = "saw" THEN ph
     ELSE IF ph <= w - ph THEN ph ELSE w - ph

Sample(par) == splev(SplineArg(par.t2, par.nm, par.period, par.Tsc2), par)

\* Lines 35-38: val = (splev(...)/Area)/Vsc and values = -n * val, kept as
\* numerators over the denominator Area*Vsc.
Inflow_values(par, n) ==
  [num |-> <<-n[1] * Sample(par), -n[2] * Sample(par), -n[3] * Sample(par)>>,
   den |-> par.Area * par.Vsc]

\* Lines 116-117: val = splev(...)*133.322/(1060*Vsc*Vsc).
Outflow_values(par) ==
  [num |-> <<Sample(par) * 133322>>, den |-> 1060000 * par.Vsc * par.Vsc]

Normals == {<<1, 0, 0>>, <<0, 0, -1>>}
Times2 == 0 .. MaxT2
Cycles == 0 .. MaxCycle
WaveParams ==
  [t2 : Times2, nm : Cycles, period : {1, 2}, Tsc2 : {1, 2, 3},
   Area : {2}, Vsc : {5}, func : {"saw", "tri"}]
Record(who, par) == [who |-> who, t2 |-> par.t2, nm |-> par.nm, sample |-> Sample(par)]
Remember(log, e) == IF log = <<>> THEN <<e>> ELSE <<e, log[1]>>

(***************************************************************************)
(* attach_nullspace (lines 153-163).  A vector entry is a sign and a float  *)
(* magnitude.                                                               *)
(***************************************************************************)
Dofs == 1 .. NDof
Sign(i) == IF i < 0 THEN -1 ELSE IF i = 0 THEN 0 ELSE 1
Entry(i) == [s |-> Sign(i), a |-> FromInt(Abs(i))]
Scale(v, c) == [d \in DOMAIN v |-> [s |-> v[d].s, a |-> FMul(v[d].a, c)]]

\* Line 157, Q.dofmap().set(null_vec, 1.0): the dofs of Q are set to 1.0 and
\* the other entries keep what they hold.
dofmap_set(vec, dofs, val) ==
  [d \in DOMAIN vec |-> IF d \in dofs THEN Entry(val) ELSE vec[d]]

RECURSIVE SumSquares(_, _)
SumSquares(v, d) ==
  IF d = 0 THEN FZero ELSE FAdd(SumSquares(v, d - 1), FMul(v[d].a, v[d].a))

\* null_vec.norm('l2')
norm_l2(v) == FSqrt(SumSquares(v, NDof))

\* Lines 156-158: copy x_.vector(), set the dofs of Q, normalize.
NullVector(x, q) ==
  LET copy == x
      set  == dofmap_set(copy, q, 1)
  IN Scale(set, FDiv(FromInt(1), norm_l2(set)))

(***************************************************************************)
(* DENO (lines 169-187).  u[v] is the velocity at vertex v, h[v] > 0 the    *)
(* length scale there; a process computes over the vertices it holds.       *)
(***************************************************************************)
Vertices == 1 .. NVert
Procs == 0 .. (NProc - 1)
Comps == 1 .. Dim

\* np.max of a non-empty set of floats.
np_max(S) == CHOOSE x \in S : \A y \in S : FLe(y, x)

\* Line 179: np.abs(vertex_values_u / vertex_values_h_f_X) at one vertex.
Ratio(uv, hv) == FDiv(FromInt(Abs(uv)), FromInt(hv))

\* Lines 171, 177-179: DN_local accumulates, component by component, the
\* largest ratio among the vertices the process holds.
DN_local_Overwrite(uu, hh, verts, i) ==
  np_max({Ratio(uu[v][i], hh[v]) : v \in verts})
RECURSIVE DN_local(_, _, _, _)
DN_local(uu, hh, verts, i) ==
  IF i = 0 THEN FZero
  ELSE FAdd(DN_local(uu, hh, verts, i - 1),
            np_max({Ratio(uu[v][i], hh[v]) : v \in verts}))

\* Lines 175, 180: vertex_mag_u accumulates the squared components.
RECURSIVE vertex_mag_u(_, _)
vertex_mag_u(uvec, i) ==
  IF i = 0 THEN FZero
  ELSE FAdd(vertex_mag_u(uvec, i - 1), FMul(FromInt(Abs(uvec[i])), FromInt(Abs(uvec[i]))))

\* Line 182.
NM_local(uu, hh, verts) ==
  np_max({FMul(FSqrt(vertex_mag_u(uu[v], Dim)), FromInt(hh[v])) : v \in verts})

\* Mpi.Max: the greatest of the values the processes contribute.
Mpi_Max(contrib) == np_max({contrib[p] : p \in DOMAIN contrib})

\* Lines 184-187, on the processes of the partition pt.
DENO(uu, hh, pt) ==
  [DN |-> Mpi_Max([p \in DOMAIN pt |-> DN_local(uu, hh, pt[p], Dim)]),
   NM |-> Mpi_Max([p \in DOMAIN pt |-> NM_local(uu, hh, pt[p])])]

\* Velocities: at rest, or a speed 1 .. MaxU along one of two directions.
Directions == {<<0, -1, 0>>, <<1, -1, 1>>}
Velocities ==
  {<<0, 0, 0>>} \cup
  {<<c * d[1], c * d[2], c * d[3]>> : c \in 1 .. MaxU, d \in Directions}
Lengths == 1 .. MaxH
\* Length scales: one at the interface vertex 1, one on the rest of the mesh.
LengthScales == {[v \in Vertices |-> IF v = 1 THEN a ELSE b] : a, b \in Lengths}
\* Every process holds a vertex, every vertex is held, and only the
\* interface vertex 1 is held by more than one process.
Partitions ==
  {pt \in [Procs -> (SUBSET Vertices) \ {{}}] :
     /\ UNION {pt[p] : p \in Procs} = Vertices
     /\ \A p, q \in Procs : p # q => pt[p] \cap pt[q] \subseteq {1}}
Serial == [p \in {0} |-> Vertices]

(***************************************************************************)
(* The Mpi facade handed to DENO and calc_runtime_stats_timestep.  A        *)
(* process enters a collective by adding it to the list of those it has     *)
(* entered in this step; it leaves its k-th collective once every process   *)
(* has entered its own k-th one, and all of them are the same operation.    *)
(***************************************************************************)
Mpi_enter(log, op, val) == Append(log, [op |-> op, val |-> val])

Mpi_complete(logs, p, k) ==
  \A q \in DOMAIN logs : Len(logs[q]) >= k /\ logs[q][k].op = logs[p][k].op

Mpi_Max_result(logs, k) == Mpi_Max([q \in DOMAIN logs |-> logs[q][k].val])

\* Line 247: Mpi.get_rank() == 0.
IsWriter_EveryRank(p) == TRUE
IsWriter(p) == p = 0

(***************************************************************************)
(* Inputs of the rounding specification.  Step sizes are far below          *)
(* 2^53 / 10^5, so number * 10^5 keeps fractional bits in a Python float;   *)
(* the inputs are kept where it does so in the model: below                 *)
(* 2^MantBits / 10^5.                                                       *)
(***************************************************************************)
Mantissas == Pow2(MantBits - 1) .. (Pow2(MantBits) - 1)
Numbers ==
  {FZero} \cup
  {[m |-> m, e |-> e] : m \in Mantissas, e \in (-(MantBits + 6)) .. (-(MantBits + 5))}
DecimalsIn ==
  {[int |-> TRUE, n |-> 5], [int |-> TRUE, n |-> 2], [int |-> TRUE, n |-> 0],
   [int |-> TRUE, n |-> -1], [int |-> FALSE, n |-> 2]}
Tenths(k) == FDiv(FromInt(k), FromInt(10))
Hundredths(k) == FDiv(FromInt(k), FromInt(100))
CourantTargets == {Tenths(3), Tenths(5)}
Denominators == {FZero} \cup {FromInt(d) : d \in 8 .. 24}
TimeControls ==
  [variable_timestep : BOOLEAN, C_no : CourantTargets]
StepSizes == {Hundredths(1), Hundredths(2)}

(***************************************************************************)
(* Each specification below drives one part of the program and leaves the   *)
(* variables of the other parts at these values.                            *)
(***************************************************************************)
DefaultCall ==
  [tsp |-> Hundredths(1),
   time_control |-> [variable_timestep |-> FALSE, C_no |-> Tenths(5)],
   DN |-> FZero]

RoundIdle ==
  /\ number = FZero /\ decimals = [int |-> TRUE, n |-> 5] /\ rounded = NoResult
  /\ ts_call = DefaultCall /\ ts_ret = NoResult

WaveIdle ==
  /\ param = [t2 |-> 0, nm |-> 0, period |-> 1, Tsc2 |-> 2, Area |-> 2, Vsc |-> 5,
              func |-> "saw"]
  /\ values = [num |-> <<>>, den |-> 1]
  /\ evals = <<>>

NullIdle ==
  /\ x_ = [d \in Dofs |-> Entry(0)] /\ Q = Dofs /\ Ap = [null_space |-> <<>>]

MeshIdle ==
  /\ u = [v \in Vertices |-> <<0, 0, 0>>] /\ h_f_X = [v \in Vertices |-> 1]
  /\ part = [p \in Procs |-> Vertices]

DenoIdle == DENO_ret = NoResult /\ serial_ret = NoResult

NoLocals == [DN |-> FZero, NM |-> FZero, C_no_real |-> FZero, local_Re |-> FZero]

StepIdle ==
  /\ t = 0 /\ tsp = Hundredths(1) /\ Re = FromInt(100)
  /\ time_control = [variable_timestep |-> FALSE, C_no |-> Tenths(5)]
  /\ pc = [p \in Procs |-> "idle"]
  /\ coll = [p \in Procs |-> <<>>]
  /\ loc = [p \in Procs |-> NoLocals]
  /\ ret = [p \in Procs |-> NoResult]
  /\ text_file = <<>>

RotIdle ==
  /\ u_ = [k \in USlots |-> 0] /\ p_ = [k \in USlots |-> 0]
  /\ T_ = [k \in TSlots |-> 0] /\ snap = <<>>

(***************************************************************************)
(* The rounding specification: one call of round_decimals_down, or one      *)
(* step-size update, on inputs drawn by Init.                               *)
(***************************************************************************)
InitRound ==
  /\ rounded = NoResult
  /\ ts_ret = NoResult
  /\ RotIdle /\ WaveIdle /\ NullIdle /\ MeshIdle /\ DenoIdle /\ StepIdle
  /\ \/ /\ number \in Numbers
        /\ decimals \in DecimalsIn
        /\ ts_call = DefaultCall
     \/ /\ number = FZero
        /\ decimals = [int |-> TRUE, n |-> 5]
        /\ ts_call \in [tsp : StepSizes, time_control : TimeControls, DN : Denominators]

CallRound ==
  /\ rounded = NoResult
  /\ rounded' = round_decimals_down(number, decimals)
  /\ UNCHANGED <<number, decimals, ts_call, ts_ret, rotVars, waveVars, nullVars, meshVars, denoVars, stepVars>>

CallTimestepUpdate ==
  /\ ts_ret = NoResult
  /\ ts_ret' = timestep_update(ts_call.tsp, ts_call.time_control, ts_call.DN)
  /\ UNCHANGED <<number, decimals, rounded, ts_call, rotVars, waveVars, nullVars, meshVars, denoVars, stepVars>>

NextRound == CallRound \/ CallTimestepUpdate

SpecRound == InitRound /\ [][NextRound]_vars

(***************************************************************************)
(* The rotation specification: the solver writes slot 0 of a field, and     *)
(* update_variables shifts the histories.                                   *)
(***************************************************************************)

InitRot ==
  /\ u_ \in [USlots -> Vals]
  /\ p_ \in [USlots -> Vals]
  /\ T_ \in [TSlots -> Vals]
  /\ snap = <<>>
  /\ RoundIdle /\ WaveIdle /\ NullIdle /\ MeshIdle /\ DenoIdle /\ StepIdle

update_variables ==
  /\ Len(snap) < MaxCalls
  /\ u_' = Rotate3(u_)
  /\ p_' = Rotate3(p_)
  /\ T_' = Rotate4(T_)
  /\ snap' = Append(snap, [u |-> u_, p |-> p_, T |-> T_])
  /\ UNCHANGED <<roundVars, waveVars, nullVars, meshVars, denoVars, stepVars>>

\* The external solver overwrites slot 0 of a field with the value it computed.
SolveVelocity ==
  /\ \E v \in Vals : u_' = [u_ EXCEPT ![0] = v]
  /\ snap' = <<>>
  /\ UNCHANGED <<p_, T_, roundVars, waveVars, nullVars, meshVars, denoVars, stepVars>>

SolvePressure ==
  /\ \E v \in Vals : p_' = [p_ EXCEPT ![0] = v]
  /\ snap' = <<>>
  /\ UNCHANGED <<u_, T_, roundVars, waveVars, nullVars, meshVars, denoVars, stepVars>>

SolveTemperature ==
  /\ \E v \in Vals : T_' = [T_ EXCEPT ![0] = v]
  /\ snap' = <<>>
  /\ UNCHANGED <<u_, p_, roundVars, waveVars, nullVars, meshVars, denoVars, stepVars>>

NextRot == update_variables \/ SolveVelocity \/ SolvePressure \/ SolveTemperature

SpecRot == InitRot /\ [][NextRot]_vars

(***************************************************************************)
(* The boundary specification: the solver moves the clock, and the          *)
(* assembler evaluates the inflow and outflow expressions on boundary       *)
(* facets (local_facet >= 0, lines 23 and 104).                             *)
(***************************************************************************)
InitWave ==
  /\ param \in WaveParams
  /\ param.t2 = 0 /\ param.nm = 0
  /\ values = [num |-> <<>>, den |-> 1]
  /\ evals = <<>>
  /\ RoundIdle /\ RotIdle /\ NullIdle /\ MeshIdle /\ DenoIdle /\ StepIdle

SetClock ==
  /\ \E t2 \in Times2, nm \in Cycles : param' = [param EXCEPT !.t2 = t2, !.nm = nm]
  /\ UNCHANGED <<values, evals, roundVars, rotVars, nullVars, meshVars, denoVars, stepVars>>

Inflow_eval_cell ==
  /\ \E n \in Normals : values' = Inflow_values(param, n)
  /\ evals' = Remember(evals, Record("Inflow", param))
  /\ UNCHANGED <<param, roundVars, rotVars, nullVars, meshVars, denoVars, stepVars>>

Outflow_eval_cell ==
  /\ values' = Outflow_values(param)
  /\ evals' = Remember(evals, Record("Outflow", param))
  /\ UNCHANGED <<param, roundVars, rotVars, nullVars, meshVars, denoVars, stepVars>>

NextWave == SetClock \/ Inflow_eval_cell \/ Outflow_eval_cell

SpecWave == InitWave /\ [][NextWave]_vars

(***************************************************************************)
(* The null-space specification: the solver writes the reference vector,    *)
(* and attach_nullspace builds the basis and attaches it to the operator.   *)
(***************************************************************************)
InitNull ==
  /\ x_ \in [Dofs -> {Entry(i) : i \in (-MaxX) .. MaxX}]
  /\ Q \in (SUBSET Dofs) \ {{}}
  /\ Ap = [null_space |-> <<>>]
  /\ RoundIdle /\ RotIdle /\ WaveIdle /\ MeshIdle /\ DenoIdle /\ StepIdle

SolveReference ==
  /\ \E d \in Dofs, i \in (-MaxX) .. MaxX : x_' = [x_ EXCEPT ![d] = Entry(i)]
  /\ UNCHANGED <<Q, Ap, roundVars, rotVars, waveVars, meshVars, denoVars, stepVars>>

attach_nullspace ==
  /\ Ap' = [null_space |-> <<NullVector(x_, Q)>>]
  /\ UNCHANGED <<x_, Q, roundVars, rotVars, waveVars, meshVars, denoVars, stepVars>>

NextNull == SolveReference \/ attach_nullspace

SpecNull == InitNull /\ [][NextNull]_vars

(***************************************************************************)
(* The stability specification: DENO runs on the processes of the           *)
(* partition and, for comparison, on a single process holding the whole     *)
(* mesh; the solver changes the velocity, which makes the results stale.    *)
(***************************************************************************)
OthersIdleDeno == RoundIdle /\ RotIdle /\ WaveIdle /\ NullIdle /\ StepIdle

InitDeno ==
  /\ u \in [Vertices -> Velocities]
  /\ h_f_X \in LengthScales
  /\ part \in Partitions
  /\ DenoIdle
  /\ OthersIdleDeno

\* DENO is called once in a step, on the processes of the partition; the
\* single-process run of the same field is the reference.
RunDENO ==
  /\ DENO_ret = NoResult
  /\ DENO_ret' = [kind |-> "pair", v |-> DENO(u, h_f_X, part)]
  /\ UNCHANGED <<serial_ret, meshVars, roundVars, rotVars, waveVars, nullVars, stepVars>>

RunSerialDENO ==
  /\ serial_ret = NoResult
  /\ serial_ret' = [kind |-> "pair", v |-> DENO(u, h_f_X, Serial)]
  /\ UNCHANGED <<DENO_ret, meshVars, roundVars, rotVars, waveVars, nullVars, stepVars>>

\* The solver moves on to a new velocity once the step's estimates are made.
SolveField ==
  /\ DENO_ret # NoResult /\ serial_ret # NoResult
  /\ \E v \in Vertices, w \in Velocities : u' = [u EXCEPT ![v] = w]
  /\ DENO_ret' = NoResult /\ serial_ret' = NoResult
  /\ UNCHANGED <<h_f_X, part, roundVars, rotVars, waveVars, nullVars, stepVars>>

NextDeno == RunDENO \/ RunSerialDENO \/ SolveField

SpecDeno == InitDeno /\ [][NextDeno]_vars

(***************************************************************************)
(* The time-step specification: in every step each process runs             *)
(* calc_runtime_stats_timestep (lines 240-253); when all have returned the  *)
(* solver takes the returned step size, advances the velocity and the       *)
(* next step begins.  A process that raises stops.                          *)
(***************************************************************************)
\* A uniform flow, and a uniform length scale, on the whole mesh.
Uniform(w) == [v \in Vertices |-> w]
\* Process p holds the vertices v with v % NProc = p, and the interface vertex.
StepPartition == [p \in Procs |-> {v \in Vertices : v % NProc = p} \cup {1}]

InitStep ==
  /\ \E w \in Velocities : u = Uniform(w)
  /\ \E l \in Lengths : h_f_X = Uniform(l)
  /\ part = StepPartition
  /\ t = 1
  /\ tsp = Hundredths(1)
  /\ Re = FromInt(100)
  /\ time_control \in [variable_timestep : BOOLEAN, C_no : {Tenths(5)}]
  /\ pc = [p \in Procs |-> "call"]
  /\ coll = [p \in Procs |-> <<>>]
  /\ loc = [p \in Procs |-> NoLocals]
  /\ ret = [p \in Procs |-> NoResult]
  /\ text_file = <<>>
  /\ DenoIdle /\ RoundIdle /\ RotIdle /\ WaveIdle /\ NullIdle

StepFrame == UNCHANGED <<meshVars, denoVars, roundVars, rotVars, waveVars, nullVars>>

\* Lines 171-184: the local estimates, then Mpi.Max(DN_local) is entered.
DENO_enter_Max_DN(p) ==
  /\ pc[p] = "call"
  /\ coll' = [coll EXCEPT ![p] = Mpi_enter(@, "Max", DN_local(u, h_f_X, part[p], Dim))]
  /\ pc' = [pc EXCEPT ![p] = "Max_DN"]
  /\ UNCHANGED <<t, tsp, Re, time_control, loc, ret, text_file>>
  /\ StepFrame

\* Lines 184-185: Max(DN_local) returns DN, then Mpi.Max(NM_local) is entered.
DENO_enter_Max_NM(p) ==
  /\ pc[p] = "Max_DN"
  /\ Mpi_complete(coll, p, 1)
  /\ loc' = [loc EXCEPT ![p].DN = Mpi_Max_result(coll, 1)]
  /\ coll' = [coll EXCEPT ![p] = Mpi_enter(@, "Max", NM_local(u, h_f_X, part[p]))]
  /\ pc' = [pc EXCEPT ![p] = "Max_NM"]
  /\ UNCHANGED <<t, tsp, Re, time_control, ret, text_file>>
  /\ StepFrame

\* Lines 185-187 and 242-246: Max(NM_local) returns NM, DENO returns, the
\* statistics are computed and Mpi.set_barrier() is entered.
enter_barrier(p) ==
  /\ pc[p] = "Max_NM"
  /\ Mpi_complete(coll, p, 2)
  /\ LET NM == Mpi_Max_result(coll, 2) IN
     loc' = [loc EXCEPT ![p].NM = NM,
                        ![p].C_no_real = FMul(loc[p].DN, tsp),
                        ![p].local_Re = FMul(NM, Re)]
  /\ coll' = [coll EXCEPT ![p] = Mpi_enter(@, "barrier", FZero)]
  /\ pc' = [pc EXCEPT ![p] = "barrier"]
  /\ UNCHANGED <<t, tsp, Re, time_control, ret, text_file>>
  /\ StepFrame

\* Lines 246-248: the barrier is left, and rank 0 writes the line.
leave_barrier_write(p) ==
  /\ pc[p] = "barrier"
  /\ Mpi_complete(coll, p, 3)
  /\ text_file' =
       IF IsWriter(p)
       THEN Append(text_file, [by |-> p, t |-> t, tsp |-> tsp,
                               C_no_real |-> loc[p].C_no_real,
                               local_Re |-> loc[p].local_Re])
       ELSE text_file
  /\ pc' = [pc EXCEPT ![p] = "timestep"]
  /\ UNCHANGED <<t, tsp, Re, time_control, coll, loc, ret>>
  /\ StepFrame

\* Lines 250-253.
return_tsp(p) ==
  /\ pc[p] = "timestep"
  /\ LET r == timestep_update(tsp, time_control, loc[p].DN) IN
     /\ ret' = [ret EXCEPT ![p] = r]
     /\ pc' = [pc EXCEPT ![p] = IF r.kind = "float" THEN "returned" ELSE "raised"]
  /\ UNCHANGED <<t, tsp, Re, time_control, coll, loc, text_file>>
  /\ StepFrame

calc_runtime_stats_timestep(p) ==
  \/ DENO_enter_Max_DN(p)
  \/ DENO_enter_Max_NM(p)
  \/ enter_barrier(p)
  \/ leave_barrier_write(p)
  \/ return_tsp(p)

\* The caller: tsp = calc_runtime_stats_timestep(...), the solver advances.
AdvanceStep ==
  /\ \A p \in Procs : pc[p] = "returned"
  /\ t < MaxSteps
  /\ t' = t + 1
  /\ tsp' = ret[0].v
  /\ \E w \in Velocities : u' = Uniform(w)
  /\ pc' = [p \in Procs |-> "call"]
  /\ coll' = [p \in Procs |-> <<>>]
  /\ loc' = [p \in Procs |-> NoLocals]
  /\ ret' = [p \in Procs |-> NoResult]
  /\ UNCHANGED <<Re, time_control, text_file, h_f_X, part>>
  /\ UNCHANGED <<denoVars, roundVars, rotVars, waveVars, nullVars>>

NextStep == (\E p \in Procs : calc_runtime_stats_timestep(p)) \/ AdvanceStep

SpecStep == InitStep /\ [][NextStep]_vars

(***************************************************************************)
(* The claims.                                                             *)
(***************************************************************************)
Buffers == [u |-> u_, p |-> p_, T |-> T_]
Before == snap[Len(snap)]
Older(k, n) == IF k - n < 0 THEN 0 ELSE k - n

(* C1: one call of update_variables leaves slot k of every buffer holding
   what slot k-1 held before the call (k = 1..2 for velocity and pressure,
   k = 1..3 for temperature) and leaves slot 0 unchanged. *)
C1_SlotsShiftByOne ==
  Len(snap) >= 1 =>
    /\ \A k \in 1 .. 2 : u_[k] = Before.u[k - 1] /\ p_[k] = Before.p[k - 1]
    /\ \A k \in 1 .. 3 : T_[k] = Before.T[k - 1]
    /\ u_[0] = Before.u[0] /\ p_[0] = Before.p[0] /\ T_[0] = Before.T[0]

\* One call has acted on buffers whose neighbouring slots all differ.
C1_Witness ==
  /\ Len(snap) = 1
  /\ \A k \in 1 .. 2 : snap[1].u[k] # snap[1].u[k - 1] /\ snap[1].p[k] # snap[1].p[k - 1]
  /\ \A k \in 1 .. 3 : snap[1].T[k] # snap[1].T[k - 1]

(* C2, as stated: two calls of update_variables in a row, with no new slot-0
   value written between them, leave the buffers as one call leaves them. *)
C2_TwiceEqualsOnce ==
  Len(snap) >= 2 => Buffers = snap[2]

(* C2, amended: n calls in a row with no new slot-0 value leave slot k
   holding what slot max(k-n, 0) held before the first call, so the second
   call duplicates the slot-0 value once more and drops one more old value;
   two calls equal one call only when slots 0 and 1 of velocity and of
   pressure, and slots 0, 1 and 2 of temperature, were equal beforehand. *)
C2_TwiceShiftsTwice ==
  Len(snap) >= 2 =>
    LET n == Len(snap) IN
    /\ \A k \in USlots : u_[k] = snap[1].u[Older(k, n)] /\ p_[k] = snap[1].p[Older(k, n)]
    /\ \A k \in TSlots : T_[k] = snap[1].T[Older(k, n)]
    /\ n = 2 =>
         ((Buffers = snap[2]) <=>
            /\ snap[1].u[0] = snap[1].u[1]
            /\ snap[1].p[0] = snap[1].p[1]
            /\ snap[1].T[0] = snap[1].T[1] /\ snap[1].T[1] = snap[1].T[2])

\* Two calls in a row have acted and the second changed the buffers.
C2_Witness ==
  /\ Len(snap) = 2
  /\ Buffers # snap[2]
  /\ snap[1].u[0] # snap[1].u[1]
  /\ snap[1].T[2] # snap[1].T[3]

\* Two remembered evaluations of the same evaluator, the first with cycle
\* count 0 at a time later by shift2 half units per cycle of the second.
ShiftedPair(e1, e2, shift2) ==
  /\ e1.who = e2.who
  /\ e1.nm = 0
  /\ e1.t2 = e2.t2 + e2.nm * shift2

EvalPairs == {<<i, j>> \in (1 .. Len(evals)) \X (1 .. Len(evals)) : i # j}

(* C8, as stated: an evaluator called at time t + k*period*Tsc with cycle
   count 0 samples the spline at the same value as when called at time t with
   cycle count k. *)
C8_ShiftByPeriodTimesTsc ==
  \A ij \in EvalPairs :
    ShiftedPair(evals[ij[1]], evals[ij[2]], param.period * param.Tsc2) =>
      evals[ij[1]].sample = evals[ij[2]].sample

(* C8, amended: an evaluator called at time t + k*period with cycle count 0
   samples the periodic waveform at the same value as when called at time t
   with cycle count k. *)
C8_ShiftByPeriod ==
  \A ij \in EvalPairs :
    ShiftedPair(evals[ij[1]], evals[ij[2]], 2 * param.period) =>
      evals[ij[1]].sample = evals[ij[2]].sample

\* Both calls were made, a whole number k >= 1 of periods apart, with a time
\* scale other than 1 and a sample that is not the waveform's value at 0.
C8_Witness ==
  /\ Len(evals) = 2
  /\ ShiftedPair(evals[1], evals[2], 2 * param.period)
  /\ evals[2].nm >= 1
  /\ param.Tsc2 # 2
  /\ evals[1].sample # 0
  /\ values.num # <<>>

(* C6: the basis vector built by attach_nullspace is zero on every degree of
   freedom not owned by Q and has the same value on every one owned by Q: it
   is the normalized vector that is 1.0 on Q's dofs and 0.0 on all others. *)
C6_IndicatorOfPressureSpace ==
  Ap.null_space # <<>> =>
    LET null_vec == Ap.null_space[1]
        unit     == FDiv(FromInt(1), FSqrt(FromInt(Cardinality(Q))))
    IN /\ \A d \in Dofs \ Q : null_vec[d].a = FZero
       /\ \A d \in Q : null_vec[d] = [s |-> 1, a |-> unit]

(* C3: for a fixed velocity field and length scale, the pair (DN, NM)
   returned by DENO is the same for every distribution of the vertices over
   processes, the single-process case included. *)
C3_PartitionInvariant ==
  (DENO_ret # NoResult /\ serial_ret # NoResult) => DENO_ret = serial_ret

RECURSIVE SumOfRatios(_, _)
SumOfRatios(v, i) ==
  IF i = 0 THEN FZero ELSE FAdd(SumOfRatios(v, i - 1), Ratio(u[v][i], h_f_X[v]))

(* C9: the DN returned by DENO bounds, at every vertex v of every process,
   the sum over the components i of |u_i(v)| / h(v), and so each single
   |u_i(v)| / h(v). *)
C9_CourantUpperBound ==
  DENO_ret # NoResult =>
    \A v \in Vertices :
      /\ FLe(SumOfRatios(v, Dim), DENO_ret.v.DN)
      /\ \A i \in Comps : FLe(Ratio(u[v][i], h_f_X[v]), DENO_ret.v.DN)

\* DENO has run on processes holding different vertices, one of which moves
\* along several components, one a negative one, at a length scale above 1.
C9_Witness ==
  /\ DENO_ret # NoResult
  /\ \E p, q \in Procs : part[p] # part[q]
  /\ \E v \in Vertices :
       /\ u[v][1] > 0 /\ u[v][2] < 0 /\ h_f_X[v] > 1
       /\ (\E w \in Vertices : w # v /\ u[w] # u[v] /\ u[w] # <<0, 0, 0>>)

(* C5: with time_control's variable_timestep False,
   calc_runtime_stats_timestep returns exactly the tsp it was given, whatever
   the Courant estimate DN and the target C_no. *)
C5_FixedStepReturned ==
  time_control.variable_timestep = FALSE =>
    \A p \in Procs :
      /\ pc[p] # "raised"
      /\ pc[p] = "returned" => ret[p] = [kind |-> "float", v |-> tsp]

\* Every process has returned with variable time-stepping off, in a step
\* whose Courant estimate is positive and in one where it is zero.
C5_Witness ==
  /\ time_control.variable_timestep = FALSE
  /\ \A p \in Procs : pc[p] = "returned"
  /\ loc[0].DN # FZero
  /\ t >= 2
  /\ text_file[1].C_no_real = FZero

Past(p, places) == pc[p] \in places

(* C7: in every time step exactly one diagnostic line is written, by the
   rank-0 process only, and only after every process has finished DENO and
   reached the barrier. *)
C7_OneLineByRankZeroAfterBarrier ==
  /\ \A i \in 1 .. Len(text_file) : text_file[i].by = 0 /\ text_file[i].t = i
  /\ Len(text_file) = IF Past(0, {"timestep", "returned", "raised"}) THEN t ELSE t - 1
  /\ Len(text_file) = t =>
       \A p \in Procs : Len(coll[p]) = 3 /\ ~Past(p, {"call", "Max_DN", "Max_NM"})

\* The line of the second step is written while another process, which has
\* reached the barrier, has not yet left it.
C7_Witness ==
  /\ t = 2
  /\ Len(text_file) = 2
  /\ \E p \in Procs : p # 0 /\ pc[p] = "barrier"

Min(a, b) == IF a < b THEN a ELSE b

SameCollectives ==
  \A p, q \in Procs :
    \A k \in 1 .. Min(Len(coll[p]), Len(coll[q])) : coll[p][k].op = coll[q][k].op

Finished(p) == pc[p] \in {"returned", "raised"}
Waiting(p) == pc[p] \in {"Max_DN", "Max_NM", "barrier"}

(* C10: every process issues the same sequence of collectives (Max, Max,
   barrier) whatever its rank, its velocity values and the variable_timestep
   setting, so no process waits in a collective that another process has
   left the function without entering, and every process that leaves the
   function returns a step size. *)
C10_SameCollectivesAllReturn ==
  /\ SameCollectives
  /\ \A p, q \in Procs :
       (Waiting(p) /\ Finished(q)) => Len(coll[q]) >= Len(coll[p])
  /\ \A p \in Procs : Finished(p) => ret[p].kind = "float"

\* n1 * 2^e1 <= n2 * 2^e2, exactly.
ExactLe(n1, e1, n2, e2) ==
  LET lo == IF e1 < e2 THEN e1 ELSE e2
  IN n1 * Pow2(e1 - lo) <= n2 * Pow2(e2 - lo)

\* x - r < 10^-5 exactly, for floats x >= r.
WithinTolerance(x, r) ==
  LET lo == IF x.m = 0 THEN r.e ELSE IF r.m = 0 THEN x.e
            ELSE IF x.e < r.e THEN x.e ELSE r.e
      d  == x.m * Pow2(x.e - lo) - r.m * Pow2(r.e - lo)
  IN d <= 0 \/ lo >= 0 \/ d <= (Pow2(-lo) - 1) \div 100000

(* C4: with variable time-stepping, C_no > 0 and DN > 0 the returned step
   round_decimals_down(C_no/DN, 5) never exceeds C_no/DN (new_tsp * DN <= C_no)
   and is less than 10^-5 below it; round_decimals_down(x, 5) <= x and
   x - round_decimals_down(x, 5) < 10^-5 for every x >= 0. *)
C4_RoundsDownWithinTolerance ==
  /\ (rounded.kind = "float" /\ decimals = [int |-> TRUE, n |-> 5]) =>
        /\ FLe(rounded.v, number)
        /\ WithinTolerance(number, rounded.v)
  /\ (ts_ret.kind = "float" /\ ts_call.time_control.variable_timestep) =>
        LET q == FDiv(ts_call.time_control.C_no, ts_call.DN) IN
        /\ FLe(ts_ret.v, q)
        /\ WithinTolerance(q, ts_ret.v)
        /\ ExactLe(ts_ret.v.m * ts_call.DN.m, ts_ret.v.e + ts_call.DN.e,
                   ts_call.time_control.C_no.m, ts_call.time_control.C_no.e)

====
